---------------------------- MODULE Spec2Model ----------------------------
(***************************************************************************)
(* Flight alert engine: the polling hook useFlightTracker, the page state  *)
(* that feeds it, the geo provider and the type resolver it calls.         *)
(*                                                                         *)
(* JavaScript runs one task at a time, so every action below is one        *)
(* uninterrupted run of code between two suspension points (await).        *)
(***************************************************************************)
EXTENDS Integers, Sequences, FiniteSets, Bags, TLC

(***************************************************************************)
(* Bounds of the model.                                                    *)
(***************************************************************************)
\* Poll invocations that may be in flight at once.
MaxPolls == 2
\* Longest list of state vectors the geo feed returns in one response.
MaxFeedLen == 2

(***************************************************************************)
(* The world the engine observes.                                          *)
(***************************************************************************)
\* Transponder identifiers (icao24) of the aircraft that exist.
Ids == {"a1", "a2"}

Null == "null"

\* What hexdb.io knows: the ICAOTypeCode of each aircraft.
ICAOTypeCode(id) == IF id = "a1" THEN "B738" ELSE "B739"

\* Keys of AIRCRAFT_MODELS the selector offers (the part of the table the
\* aircraft of the model can match).
ModelKeys == {"B737"}

\* AIRCRAFT_MODELS: every key with its display name.
AIRCRAFT_MODELS ==
  "B707" :> "Boeing 707" @@ "B717" :> "Boeing 717" @@
  "B727" :> "Boeing 727" @@ "B737" :> "Boeing 737" @@
  "B747" :> "Boeing 747" @@ "B757" :> "Boeing 757" @@
  "B767" :> "Boeing 767" @@ "B777" :> "Boeing 777" @@
  "B787" :> "Boeing 787 Dreamliner" @@ "A220" :> "Airbus A220" @@
  "A300" :> "Airbus A300" @@ "A310" :> "Airbus A310" @@
  "A318" :> "Airbus A318" @@ "A319" :> "Airbus A319" @@
  "A320" :> "Airbus A320" @@ "A321" :> "Airbus A321" @@
  "A330" :> "Airbus A330" @@ "A340" :> "Airbus A340" @@
  "A350" :> "Airbus A350" @@ "A380" :> "Airbus A380" @@
  "A400M" :> "Airbus A400M Atlas" @@ "E120" :> "Embraer EMB-120 Brasilia" @@
  "E135" :> "Embraer ERJ-135" @@ "E145" :> "Embraer ERJ-145" @@
  "E170" :> "Embraer E-Jet E170" @@ "E175" :> "Embraer E-Jet E175" @@
  "E190" :> "Embraer E-Jet E190" @@ "E195" :> "Embraer E-Jet E195" @@
  "E290" :> "Embraer E190-E2" @@ "E295" :> "Embraer E195-E2" @@
  "CRJ1" :> "Bombardier CRJ100" @@ "CRJ2" :> "Bombardier CRJ200" @@
  "CRJ7" :> "Bombardier CRJ700" @@ "CRJ9" :> "Bombardier CRJ900" @@
  "CRJX" :> "Bombardier CRJ1000" @@ "DH8A" :> "Bombardier Dash 8-100" @@
  "DH8B" :> "Bombardier Dash 8-200" @@ "DH8C" :> "Bombardier Dash 8-300" @@
  "DH8D" :> "Bombardier Dash 8-400" @@ "AT42" :> "ATR 42" @@
  "AT43" :> "ATR 42-300" @@ "AT44" :> "ATR 42-400" @@
  "AT45" :> "ATR 42-500" @@ "AT46" :> "ATR 42-600" @@ "AT72" :> "ATR 72" @@
  "AT73" :> "ATR 72-500" @@ "AT75" :> "ATR 72-600" @@ "F27" :> "Fokker 27" @@
  "F28" :> "Fokker 28" @@ "F50" :> "Fokker 50" @@ "F70" :> "Fokker 70" @@
  "F100" :> "Fokker 100" @@ "DC3" :> "Douglas DC-3" @@
  "DC6" :> "Douglas DC-6" @@ "DC8" :> "Douglas DC-8" @@
  "DC9" :> "Douglas DC-9" @@ "MD11" :> "McDonnell Douglas MD-11" @@
  "MD80" :> "McDonnell Douglas MD-80" @@
  "MD90" :> "McDonnell Douglas MD-90" @@ "L188" :> "Lockheed Electra" @@
  "L1011" :> "Lockheed L-1011 TriStar" @@
  "C130" :> "Lockheed C-130 Hercules" @@ "C25A" :> "Cessna Citation CJ2" @@
  "C25B" :> "Cessna Citation CJ3" @@ "C25C" :> "Cessna Citation CJ4" @@
  "C510" :> "Cessna Citation Mustang" @@ "C525" :> "Cessna Citation CJ1" @@
  "C550" :> "Cessna Citation II" @@ "C560" :> "Cessna Citation V" @@
  "C680" :> "Cessna Citation Sovereign" @@ "C750" :> "Cessna Citation X" @@
  "GLF4" :> "Gulfstream IV" @@ "GLF5" :> "Gulfstream V" @@
  "GLF6" :> "Gulfstream G650" @@ "H25B" :> "Hawker 800" @@
  "LJ35" :> "Learjet 35" @@ "LJ45" :> "Learjet 45" @@
  "LJ60" :> "Learjet 60" @@ "C172" :> "Cessna 172" @@
  "C182" :> "Cessna 182" @@ "C206" :> "Cessna 206" @@
  "C208" :> "Cessna 208 Caravan" @@ "PA28" :> "Piper Cherokee" @@
  "PA31" :> "Piper Navajo" @@ "PA46" :> "Piper Malibu" @@
  "BE20" :> "Beechcraft King Air" @@ "BE36" :> "Beechcraft Bonanza" @@
  "BE58" :> "Beechcraft Baron" @@ "AN12" :> "Antonov An-12" @@
  "AN22" :> "Antonov An-22" @@ "AN24" :> "Antonov An-24" @@
  "AN26" :> "Antonov An-26" @@ "AN28" :> "Antonov An-28" @@
  "AN32" :> "Antonov An-32" @@ "AN124" :> "Antonov An-124" @@
  "AN225" :> "Antonov An-225 Mriya" @@ "IL76" :> "Ilyushin Il-76" @@
  "KC135" :> "Boeing KC-135 Stratotanker" @@
  "C17" :> "Boeing C-17 Globemaster III" @@ "C5" :> "Lockheed C-5 Galaxy" @@
  "KC10" :> "McDonnell Douglas KC-10 Extender" @@
  "KC46" :> "Boeing KC-46 Pegasus" @@ "A330MRTT" :> "Airbus A330 MRTT" @@
  "C130J" :> "Lockheed C-130J Super Hercules" @@ "C295" :> "Airbus C295" @@
  "CN235" :> "CASA CN-235" @@ "C212" :> "CASA C-212 Aviocar" @@
  "V22" :> "Bell Boeing V-22 Osprey" @@ "C27J" :> "Alenia C-27J Spartan" @@
  "MV22" :> "MV-22 Osprey (Marines)" @@
  "CV22" :> "CV-22 Osprey (Air Force)" @@ "P3" :> "Lockheed P-3 Orion" @@
  "P8" :> "Boeing P-8 Poseidon" @@ "E3" :> "Boeing E-3 Sentry AWACS" @@
  "E2" :> "Northrop Grumman E-2 Hawkeye" @@
  "RC135" :> "Boeing RC-135 Rivet Joint" @@
  "U2" :> "Lockheed U-2 Dragon Lady" @@
  "F16" :> "General Dynamics F-16 Fighting Falcon" @@
  "F15" :> "McDonnell Douglas F-15 Eagle" @@
  "F18" :> "McDonnell Douglas F/A-18 Hornet" @@
  "F35" :> "Lockheed Martin F-35 Lightning II" @@
  "A10" :> "Fairchild Republic A-10 Thunderbolt II" @@
  "AV8B" :> "McDonnell Douglas AV-8B Harrier II" @@
  "T6" :> "Beechcraft T-6 Texan II" @@ "T38" :> "Northrop T-38 Talon" @@
  "T45" :> "McDonnell Douglas T-45 Goshawk" @@
  "UH60" :> "Sikorsky UH-60 Black Hawk" @@
  "CH47" :> "Boeing CH-47 Chinook" @@ "AH64" :> "Boeing AH-64 Apache" @@
  "UH1" :> "Bell UH-1 Iroquois (Huey)" @@
  "CH53" :> "Sikorsky CH-53 Sea Stallion" @@
  "SH60" :> "Sikorsky SH-60 Seahawk" @@ "AS50" :> "Airbus H125 (AS350)" @@
  "AS55" :> "Airbus H155 (AS365)" @@ "EC30" :> "Airbus H130" @@
  "EC35" :> "Airbus H135" @@ "EC45" :> "Airbus H145" @@
  "B06" :> "Bell 206" @@ "B407" :> "Bell 407" @@ "B429" :> "Bell 429" @@
  "R22" :> "Robinson R22" @@ "R44" :> "Robinson R44" @@
  "R66" :> "Robinson R66"

\* AIRCRAFT_MODELS[key].name; Null stands for the lookup that fails because
\* the table has no such key.
ModelName(key) ==
  IF key \in DOMAIN AIRCRAFT_MODELS THEN AIRCRAFT_MODELS[key] ELSE Null

\* const typeMap: the rows of the object literal, grouped by model key.
typeMap ==
  LET Row(codes, key) == [code \in codes |-> key]
  IN
     Row({"B703", "B707", "B720"}, "B707") @@
     Row({"B712", "B717"}, "B717") @@
     Row({"B721", "B722", "B727"}, "B727") @@
     Row({"B731", "B732", "B733", "B734", "B735", "B736", "B737", "B738", "B739", "B37M", "B38M", "B39M", "B3XM"}, "B737") @@
     Row({"B741", "B742", "B743", "B744", "B748", "B74S", "B74R", "BLCF"}, "B747") @@
     Row({"B752", "B753"}, "B757") @@
     Row({"B762", "B763", "B764"}, "B767") @@
     Row({"B772", "B773", "B77L", "B77W", "B779", "B77X"}, "B777") @@
     Row({"B788", "B789", "B78X"}, "B787") @@
     Row({"BCS1", "BCS3", "A221", "A223"}, "A220") @@
     Row({"A30B", "A306", "A3ST"}, "A300") @@ Row({"A310"}, "A310") @@
     Row({"A318"}, "A318") @@ Row({"A319", "A19N"}, "A319") @@
     Row({"A320", "A20N"}, "A320") @@ Row({"A321", "A21N"}, "A321") @@
     Row({"A332", "A333", "A338", "A339"}, "A330") @@
     Row({"A342", "A343", "A345", "A346"}, "A340") @@
     Row({"A359", "A35K"}, "A350") @@ Row({"A388"}, "A380") @@
     Row({"A400"}, "A400M") @@ Row({"E120"}, "E120") @@
     Row({"E135"}, "E135") @@ Row({"E145"}, "E145") @@
     Row({"E170"}, "E170") @@ Row({"E175"}, "E175") @@
     Row({"E190"}, "E190") @@ Row({"E195"}, "E195") @@
     Row({"E290"}, "E290") @@ Row({"E295"}, "E295") @@
     Row({"CRJ1"}, "CRJ1") @@ Row({"CRJ2"}, "CRJ2") @@
     Row({"CRJ7"}, "CRJ7") @@ Row({"CRJ9"}, "CRJ9") @@
     Row({"CRJX"}, "CRJX") @@ Row({"DH8A"}, "DH8A") @@
     Row({"DH8B"}, "DH8B") @@ Row({"DH8C"}, "DH8C") @@
     Row({"DH8D"}, "DH8D") @@ Row({"AT42"}, "AT42") @@
     Row({"AT43"}, "AT43") @@ Row({"AT44"}, "AT44") @@
     Row({"AT45"}, "AT45") @@ Row({"AT46"}, "AT46") @@
     Row({"AT72"}, "AT72") @@ Row({"AT73"}, "AT73") @@
     Row({"AT75"}, "AT75") @@ Row({"F27"}, "F27") @@ Row({"F28"}, "F28") @@
     Row({"F50"}, "F50") @@ Row({"F70"}, "F70") @@ Row({"F100"}, "F100") @@
     Row({"DC3"}, "DC3") @@ Row({"DC6"}, "DC6") @@
     Row({"DC81", "DC82", "DC83", "DC86", "DC87"}, "DC8") @@
     Row({"DC91", "DC92", "DC93", "DC94", "DC95"}, "DC9") @@
     Row({"MD11"}, "MD11") @@
     Row({"MD81", "MD82", "MD83", "MD87", "MD88"}, "MD80") @@
     Row({"MD90"}, "MD90") @@ Row({"L188"}, "L188") @@
     Row({"L101"}, "L1011") @@ Row({"C130", "L382"}, "C130") @@
     Row({"C25A"}, "C25A") @@ Row({"C25B"}, "C25B") @@
     Row({"C25C"}, "C25C") @@ Row({"C510"}, "C510") @@
     Row({"C525"}, "C525") @@ Row({"C550"}, "C550") @@
     Row({"C560"}, "C560") @@ Row({"C680"}, "C680") @@
     Row({"C750"}, "C750") @@ Row({"GLF4"}, "GLF4") @@
     Row({"GLF5"}, "GLF5") @@ Row({"GLF6"}, "GLF6") @@
     Row({"H25B"}, "H25B") @@ Row({"LJ35"}, "LJ35") @@
     Row({"LJ45"}, "LJ45") @@ Row({"LJ60"}, "LJ60") @@
     Row({"C172"}, "C172") @@ Row({"C182"}, "C182") @@
     Row({"C206"}, "C206") @@ Row({"C208"}, "C208") @@
     Row({"PA28"}, "PA28") @@ Row({"PA31"}, "PA31") @@
     Row({"PA46"}, "PA46") @@ Row({"BE20"}, "BE20") @@
     Row({"BE36"}, "BE36") @@ Row({"BE58"}, "BE58") @@
     Row({"AN12"}, "AN12") @@ Row({"AN22"}, "AN22") @@
     Row({"AN24"}, "AN24") @@ Row({"AN26"}, "AN26") @@
     Row({"AN28"}, "AN28") @@ Row({"AN32"}, "AN32") @@
     Row({"A124"}, "AN124") @@ Row({"A225"}, "AN225") @@
     Row({"IL76"}, "IL76") @@ Row({"KC135"}, "KC135") @@
     Row({"C17"}, "C17") @@ Row({"C5"}, "C5") @@ Row({"KC10"}, "KC10") @@
     Row({"KC46"}, "KC46") @@ Row({"C295"}, "C295") @@
     Row({"CN35"}, "CN235") @@ Row({"C212"}, "C212") @@
     Row({"V22"}, "V22") @@ Row({"MV22"}, "MV22") @@ Row({"CV22"}, "CV22") @@
     Row({"C27J"}, "C27J") @@ Row({"P3"}, "P3") @@ Row({"P8"}, "P8") @@
     Row({"E3"}, "E3") @@ Row({"E2"}, "E2") @@ Row({"RC35"}, "RC135") @@
     Row({"U2"}, "U2") @@ Row({"F16"}, "F16") @@ Row({"F15"}, "F15") @@
     Row({"F18"}, "F18") @@ Row({"F35"}, "F35") @@ Row({"A10"}, "A10") @@
     Row({"AV8B"}, "AV8B") @@ Row({"T6"}, "T6") @@ Row({"T38"}, "T38") @@
     Row({"T45"}, "T45") @@ Row({"UH60", "H60"}, "UH60") @@
     Row({"CH47"}, "CH47") @@ Row({"AH64"}, "AH64") @@ Row({"UH1"}, "UH1") @@
     Row({"CH53"}, "CH53") @@ Row({"SH60"}, "SH60") @@
     Row({"AS50"}, "AS50") @@ Row({"AS55"}, "AS55") @@
     Row({"EC30"}, "EC30") @@ Row({"EC35"}, "EC35") @@
     Row({"EC45"}, "EC45") @@ Row({"B06"}, "B06") @@ Row({"B407"}, "B407") @@
     Row({"B429"}, "B429") @@ Row({"R22"}, "R22") @@ Row({"R44"}, "R44") @@
     Row({"R66"}, "R66")

\* typeMap is a plain object: besides its own keys it answers to the names
\* it inherits from Object.prototype.
ObjectPrototypeMembers ==
  {"constructor", "toString", "toLocaleString", "valueOf", "hasOwnProperty",
   "isPrototypeOf", "propertyIsEnumerable", "__proto__"}

\* What a member inherited from Object.prototype evaluates to: a function or
\* an object, truthy, and no model key.
Inherited == "[inherited]"

\* typeMap[typeCode] || null: the values of the table are non-empty strings,
\* a name found nowhere gives undefined.
PropertyGet(typeCode) ==
  IF typeCode \in DOMAIN typeMap THEN typeMap[typeCode]
  ELSE IF typeCode \in ObjectPrototypeMembers THEN Inherited
  ELSE Null

\* HexDBAPI.mapTypeToModel: no-match for a missing or empty type code, else
\* the lookup in the table.
mapTypeToModel(typeCode) ==
  IF typeCode = Null \/ typeCode = "" THEN Null
  ELSE PropertyGet(typeCode)

(***************************************************************************)
(* Small helpers.                                                          *)
(***************************************************************************)
Range(s) == {s[i] : i \in DOMAIN s}

SeqsUpTo(S, n) == UNION {[1..k -> S] : k \in 0..n}

Count(s, x) == Cardinality({i \in DOMAIN s : s[i] = x})

VARIABLES
  alert,                \* page.tsx: FlightAlert | null
  showSetup,            \* page.tsx: setup view or live view
  selectedModels,       \* AircraftSelector: its own selection state
  timers,               \* live setInterval timers, each with the closure it calls
  polls,                \* bag of the fetchAircraft invocations in flight
  inArea,               \* aircraft really inside the watch circle right now
  aircraftCache,        \* hexdb-api: Map icao24 -> record | null
  previousAircraftRef,  \* presence set of the last poll that completed
  alertedAircraftRef,   \* identifiers already alerted
  aircraft,             \* hook state: the displayed list
  isLoading,            \* hook state
  error,                \* hook state
  lastUpdate,           \* hook state
  emitted,              \* what the last step sent to the notification sinks
  visit,                \* history: per identifier, where it is in its visit
  contInArea,           \* history: notified and in the area ever since
  resolved,             \* history: what the first completed lookup returned
  geoCall,              \* one call of getAircraftInRadius, followed on its own
  batchCall,            \* one call of getMultipleAircraftInfo, followed on its own
  pureCall,             \* one call of a function without state, followed on its own
  fresh,                \* history: monitoring was started and no poll has ended since
  seenInArea,           \* history: listed by a completed poll, in the area ever since
  scenario              \* the scope of this run: its aircraft, its concurrency

vars == <<alert, showSetup, selectedModels, timers, polls, inArea,
          aircraftCache, previousAircraftRef, alertedAircraftRef, aircraft,
          isLoading, error, lastUpdate, emitted, visit, contInArea, resolved,
          geoCall, batchCall, pureCall, fresh, seenInArea, scenario>>


(***************************************************************************)
(* Page state (page.tsx) and what the hook derives from it.                *)
(***************************************************************************)
\* useState<FlightAlert | null>(null): "set" is alert !== null.
NoAlert == [set |-> FALSE, active |-> FALSE, aircraftModels |-> {}]

AlertValues == {NoAlert} \cup
  [set : {TRUE}, active : BOOLEAN, aircraftModels : SUBSET ModelKeys]

\* page.tsx passes enabled: alert?.active || false.
Enabled(a) == a.set /\ a.active

\* The negation of the early return of fetchAircraft and of the effect:
\* if (!alert || !alert.active || !enabled) return.
CanPoll(a) == a.set /\ a.active /\ Enabled(a)

(***************************************************************************)
(* Poll invocations.  One call of fetchAircraft in flight is a record:     *)
(* where it is suspended, the alert its closure captured, the list         *)
(* getAircraftInRadius returned and, per identifier, the state of its type *)
(* lookup ("none": not asked, "net": request in flight, "rec"/"null": the  *)
(* cached answer it was given); feedFailed records that the list is the [] *)
(* of a failed request.  Calls in flight form a bag: two calls may be in   *)
(* the same state.                                                         *)
(***************************************************************************)
NewPoll(c) == [pc |-> "awaitGeo", closure |-> c, nearby |-> <<>>,
               feedFailed |-> FALSE, info |-> [i \in Ids |-> "none"],
               told |-> {}]

\* History kept with a call in flight: the identifiers that calls which
\* ended while this one was in flight have notified.
ToldOf(p, ids) == [p EXCEPT !.told = @ \cup ids]

InFlight == BagToSet(polls)

NumInFlight == BagCardinality(polls)

\* The scope allows one more call in flight.
HasFreeSlot == NumInFlight < scenario.maxInFlight

\* What a step sent out: nothing, ...
Quiet == [kind |-> "quiet", trigger |-> Null, toasts |-> <<>>, os |-> <<>>,
          listed |-> {}, current |-> {}, matching |-> {}, feedFailed |-> FALSE,
          responses |-> [i \in Ids |-> "none"], lookupThrew |-> FALSE,
          permission |-> "unread", told |-> {}]

\* ... or the geo request of a poll that "trig" started.
Started(trig) == [Quiet EXCEPT !.kind = "start", !.trigger = trig]

\* ... or the call of fetchAircraft by "trig" that returned at its guard.
Ignored(trig) == [Quiet EXCEPT !.kind = "ignored", !.trigger = trig]

\* Variant: the early return is missing.
fetchAircraftUnguarded(c, trig) ==
  /\ HasFreeSlot
  /\ polls' = polls (+) SetToBag({NewPoll(c)})
  /\ isLoading' = TRUE
  /\ error' = Null
  /\ emitted' = Started(trig)

\* fetchAircraft up to its first await: the guard, setIsLoading(true),
\* setError(null), and the geo request goes out.
fetchAircraft(c, trig) ==
  IF CanPoll(c)
  THEN /\ HasFreeSlot
       /\ polls' = polls (+) SetToBag({NewPoll(c)})
       /\ isLoading' = TRUE
       /\ error' = Null
       /\ emitted' = Started(trig)
  ELSE /\ emitted' = Ignored(trig)
       /\ UNCHANGED <<polls, isLoading, error>>

\* Variant: the effect returns no cleanup, so an old interval keeps firing.
EffectCleanupKeeps(ts) == ts

\* The cleanup of the interval effect: clearInterval(interval).
EffectCleanup(ts) == {}

\* Variant: the effect sets up the interval without the initial fetch.
RunEffectNoInitialFetch(a) ==
  IF CanPoll(a)
  THEN /\ timers' = EffectCleanup(timers) \cup {a}
       /\ emitted' = Quiet
       /\ UNCHANGED <<aircraft, polls, isLoading, error>>
  ELSE /\ timers' = EffectCleanup(timers)
       /\ aircraft' = <<>>
       /\ emitted' = Quiet
       /\ UNCHANGED <<polls, isLoading, error>>

\* The interval effect, run after a render with a new alert object:
\* cleanup, then either setAircraft([]) or an immediate fetch and a new
\* interval whose callback is the fetchAircraft of this render.
RunEffect(a) ==
  IF CanPoll(a)
  THEN /\ fetchAircraft(a, "effect")
       /\ timers' = EffectCleanup(timers) \cup {a}
       /\ UNCHANGED aircraft
  ELSE /\ timers' = EffectCleanup(timers)
       /\ aircraft' = <<>>
       /\ emitted' = Quiet
       /\ UNCHANGED <<polls, isLoading, error>>

engineRefs == <<aircraftCache, previousAircraftRef, alertedAircraftRef,
                lastUpdate, visit, contInArea, resolved, geoCall, batchCall,
                pureCall, seenInArea, scenario>>

(***************************************************************************)
(* Setup actions of the user.                                              *)
(***************************************************************************)
\* CoordinatePicker.handleSubmit -> handleCoordinateSelect.
handleCoordinateSelect ==
  /\ showSetup
  /\ alert' = [set |-> TRUE, active |-> FALSE,
               aircraftModels |-> IF alert.set THEN alert.aircraftModels ELSE {}]
  /\ RunEffect(alert')
  /\ fresh' = FALSE
  /\ UNCHANGED <<showSetup, selectedModels, inArea>>
  /\ UNCHANGED engineRefs

\* page.tsx handleAircraftSelection, called by the selector with its new
\* selection: ignored while no alert exists.
handleAircraftSelection(newSelection) ==
  IF alert.set
  THEN /\ alert' = [alert EXCEPT !.aircraftModels = newSelection]
       /\ RunEffect(alert')
  ELSE /\ emitted' = Quiet
       /\ UNCHANGED <<alert, timers, aircraft, polls, isLoading, error>>

SelectorAction(newSelection) ==
  /\ showSetup
  /\ selectedModels' = newSelection
  /\ handleAircraftSelection(newSelection)
  /\ UNCHANGED <<showSetup, inArea, fresh>>
  /\ UNCHANGED engineRefs

toggleModel ==
  \E modelKey \in ModelKeys :
    SelectorAction(IF modelKey \in selectedModels
                   THEN selectedModels \ {modelKey}
                   ELSE selectedModels \cup {modelKey})

selectAll == SelectorAction(ModelKeys)

clearAll == SelectorAction({})

\* page.tsx toggleAlert (the Start/Stop Monitoring button, rendered only
\* when an alert exists).  Starting leaves the setup view, which unmounts
\* the selector.
toggleAlert ==
  /\ alert.set
  /\ alert' = [alert EXCEPT !.active = ~alert.active]
  /\ showSetup' = IF ~alert.active THEN FALSE ELSE showSetup
  /\ selectedModels' = IF showSetup' THEN selectedModels ELSE {}
  /\ RunEffect(alert')
  /\ fresh' = (alert'.active /\ NumInFlight = 0)
  /\ UNCHANGED inArea
  /\ UNCHANGED engineRefs

\* "Edit Alert Settings": the selector mounts again with
\* initialSelection = alert?.aircraftModels.
editSettings ==
  /\ ~showSetup
  /\ showSetup' = TRUE
  /\ selectedModels' = alert.aircraftModels
  /\ emitted' = Quiet
  /\ UNCHANGED <<alert, timers, polls, inArea, aircraft, isLoading, error, fresh>>
  /\ UNCHANGED engineRefs

(***************************************************************************)
(* Poll triggers besides the effect.                                       *)
(***************************************************************************)
\* A setInterval callback fires: the fetchAircraft the timer was given.
TimerTick ==
  \E c \in timers :
    /\ fetchAircraft(c, "timer")
    /\ UNCHANGED <<alert, showSetup, selectedModels, timers, inArea, aircraft,
                   fresh>>
    /\ UNCHANGED engineRefs

\* refresh: fetchAircraft of the current render.
Refresh ==
  /\ fetchAircraft(alert, "refresh")
  /\ UNCHANGED <<alert, showSetup, selectedModels, timers, inArea, aircraft,
                 fresh>>
  /\ UNCHANGED engineRefs

(***************************************************************************)
(* The aircraft move.                                                      *)
(***************************************************************************)
Enter ==
  \E id \in scenario.fleet \ inArea :
    /\ inArea' = inArea \cup {id}
    /\ emitted' = Quiet
    /\ UNCHANGED <<alert, showSetup, selectedModels, timers, polls,
                   aircraftCache, previousAircraftRef, alertedAircraftRef,
                   aircraft, isLoading, error, lastUpdate, visit, contInArea,
                   resolved, geoCall, batchCall, pureCall, fresh, seenInArea,
                   scenario>>

Leave ==
  \E id \in inArea :
    /\ inArea' = inArea \ {id}
    /\ contInArea' = contInArea \ {id}
    /\ seenInArea' = seenInArea \ {id}
    /\ emitted' = Quiet
    /\ UNCHANGED <<alert, showSetup, selectedModels, timers, polls,
                   aircraftCache, previousAircraftRef, alertedAircraftRef,
                   aircraft, isLoading, error, lastUpdate, visit, resolved,
                   geoCall, batchCall, pureCall, fresh, scenario>>

(***************************************************************************)
(* The geo request returns.                                                *)
(***************************************************************************)
\* r lists its identifiers in ascending order (equal ones side by side).
Ascending(r) == \A i \in 1..(Len(r) - 1) : r[i] = r[i + 1] \/ r[i] = "a1"

\* Lists the feed may answer with when the aircraft of S are in the circle:
\* every aircraft of S at least once, some more than once.  The aircraft of
\* the model are interchangeable, so one order of the list stands for all.
FeedResults(S) ==
  {r \in SeqsUpTo(S, scenario.maxFeed) : Range(r) = S /\ Ascending(r)}

\* getMultipleAircraftInfo starts as soon as the list is there: every
\* identifier of the first chunk passes the cache check of getAircraftInfo
\* and, when it is not cached, its request goes out.
CacheCheck(nearby) ==
  [id \in Ids |->
     IF id \notin Range(nearby) THEN "none"
     ELSE IF aircraftCache[id] # "unset" THEN aircraftCache[id]
     ELSE "net"]

GeoReturns(poll, nearby, failed) ==
  /\ poll.pc = "awaitGeo"
  /\ polls' = (polls (-) SetToBag({poll})) (+)
              SetToBag({[poll EXCEPT !.pc = "awaitHex", !.nearby = nearby,
                                     !.feedFailed = failed,
                                     !.info = CacheCheck(nearby)]})
  /\ emitted' = Quiet
  /\ UNCHANGED <<alert, showSetup, selectedModels, timers, inArea,
                 aircraftCache, previousAircraftRef, alertedAircraftRef,
                 aircraft, isLoading, error, lastUpdate, visit, contInArea,
                 resolved, geoCall, batchCall, pureCall, fresh, seenInArea,
                 scenario>>

\* getAircraftInRadius: the feed answers, and the filter keeps the aircraft
\* with a position within the radius.
GeoResponse ==
  \E poll \in InFlight : \E nearby \in FeedResults(inArea) : GeoReturns(poll, nearby, FALSE)

\* getStatesInArea: the request fails (or the answer has no states array);
\* the catch block returns [].
GeoFailure == \E poll \in InFlight : GeoReturns(poll, <<>>, TRUE)

(***************************************************************************)
(* The type lookups return and the synchronous rest of fetchAircraft runs. *)
(***************************************************************************)
\* isMatchingModel: the type lookup gave a record whose type code maps to
\* a model key of the watchlist.
IsMatchingModel(info, id, models) ==
  LET matchedModel == IF info[id] = "rec"
                      THEN mapTypeToModel(ICAOTypeCode(id)) ELSE Null
  IN matchedModel # Null /\ matchedModel \in models

\* Variant: the test forgets the alerted set.
ShouldAlertNotAlerted(isMatchingModel, isNew, alerted, id) ==
  isMatchingModel /\ isNew

\* Variant: the test forgets the previous poll's presence set.
ShouldAlertNotNew(isMatchingModel, isNew, alerted, id) ==
  isMatchingModel /\ id \notin alerted

\* The test that guards the notification.
ShouldAlert(isMatchingModel, isNew, alerted, id) ==
  isMatchingModel /\ isNew /\ id \notin alerted

\* What Notification.permission can hold.
Permissions == {"granted", "denied", "default"}

\* Variant: the OS notification is created whatever the permission is.
CreatesNotificationAlways(alerts, permission) == alerts

\* The OS notification sits inside the block of the toast, behind
\* 'Notification' in window && Notification.permission === 'granted'.
CreatesNotification(alerts, permission) == alerts /\ permission = "granted"

\* One plane of nearbyAircraft.map: st is the state of the loop so far.
\* ctx.throwAt is the position of the plane at which the Notification
\* constructor throws (0: it does not throw).
ProcessPlane(ctx, st, i) ==
  LET id == ctx.nearby[i]
      isNew == id \notin ctx.previous
      isMatchingModel == IsMatchingModel(ctx.info, id, ctx.models)
      alerts == ShouldAlert(isMatchingModel, isNew, st.alerted, id)
      os == CreatesNotification(alerts, ctx.permission)
  IN [alerted  |-> IF alerts THEN st.alerted \cup {id} ELSE st.alerted,
      current  |-> st.current \cup {id},
      toasts   |-> IF alerts THEN Append(st.toasts, id) ELSE st.toasts,
      os       |-> IF os /\ ctx.throwAt # i THEN Append(st.os, id) ELSE st.os,
      threw    |-> os /\ ctx.throwAt = i]

RECURSIVE ProcessPlanes(_, _, _)
ProcessPlanes(ctx, st, i) ==
  IF i > Len(ctx.nearby) \/ st.threw THEN st
  ELSE ProcessPlanes(ctx, ProcessPlane(ctx, st, i), i + 1)

\* Variant: the clean-up loop is missing.
CleanUpNothing(alerted, current) == alerted

\* Clean up alerted aircraft that are no longer in range.
CleanUp(alerted, current) == {icao24 \in alerted : icao24 \in current}

\* History: where each identifier is in its visit after this poll.
\*   "notified": notified, and in the result of every completed poll since;
\*   "absent":   notified once, then missing from a completed poll, and in
\*               no poll result since.
VisitAfter(st, nearby) ==
  [id \in Ids |->
     IF Count(st.toasts, id) > 0 THEN "notified"
     ELSE IF ~st.threw /\ id \notin st.current
       THEN (IF visit[id] = "none" THEN "none" ELSE "absent")
     ELSE IF id \in Range(nearby) /\ visit[id] = "absent" THEN "none"
     ELSE visit[id]]

\* Variant: the ref is pointed at the new set before the loop fills it.
PreviousAfterEager(st) == st.current

\* previousAircraftRef.current = currentAircraftSet comes after the loop
\* and the clean-up: a poll that threw never gets there.
PreviousAfter(st) == IF st.threw THEN previousAircraftRef ELSE st.current

\* The alerted set the poll leaves behind.
AlertedAfter(st) ==
  IF st.threw THEN st.alerted ELSE CleanUp(st.alerted, st.current)

\* Variant: the catch block gives up and clears the interval.
TimersAfterStop(st, ts) == IF st.threw THEN {} ELSE ts

\* Neither the catch block nor the finally block touches the interval: the
\* timers a poll leaves behind are the timers it found.
TimersAfter(st, ts) == ts

\* How the GET /aircraft/{icao24} of one lookup can end: 200 with a record,
\* 200 with an empty body, 404, no answer within the 5 second timeout, or a
\* transport error.
Responses == {"data", "empty", "notFound404", "timeout", "transport"}

\* axios rejects the promise for a status outside 2xx, for a timeout and for
\* a transport error.
AxiosRejects(response) == response \in {"notFound404", "timeout", "transport"}

\* Variant: the catch block is missing, the rejection reaches the caller and
\* nothing is cached.
getAircraftInfoRethrows(response) ==
  IF AxiosRejects(response)
  THEN [threw |-> TRUE, value |-> "null", store |-> FALSE]
  ELSE IF response = "data"
    THEN [threw |-> FALSE, value |-> "rec", store |-> TRUE]
    ELSE [threw |-> FALSE, value |-> "null", store |-> TRUE]

\* getAircraftInfo after its await: what it returns and whether it writes
\* that value to aircraftCache (it always does).
getAircraftInfo(response) ==
  IF AxiosRejects(response)
  THEN [threw |-> FALSE, value |-> "null", store |-> TRUE]
  ELSE IF response = "data"
    THEN [threw |-> FALSE, value |-> "rec", store |-> TRUE]
    ELSE [threw |-> FALSE, value |-> "null", store |-> TRUE]

HexAnswers == [Ids -> Responses \cup {"none"}]

\* What the poll throws in this model: the TypeError of a Notification
\* constructor that refuses to construct, or the error a lookup lets through.
ThrownError == [isError |-> TRUE, message |-> "TypeError"]

\* catch: setError(err instanceof Error ? err.message : 'Failed to fetch
\* aircraft data').
ErrorAfter(st, err) ==
  IF ~st.threw THEN error
  ELSE IF err.isError THEN err.message ELSE "Failed to fetch aircraft data"

\* Variant: the finally block is missing, a poll that throws leaves the
\* loading flag as it found it.
LoadingAfterNoFinally(st) == IF st.threw THEN isLoading ELSE FALSE

\* finally: setIsLoading(false), on both ways out.
LoadingAfter(st) == FALSE

Commit(poll, answers, permission, throwAt) ==
  LET lookup == [id \in Ids |-> getAircraftInfo(answers[id])]
      onNet == {id \in Ids : poll.info[id] = "net"}
      lookupThrew == \E id \in onNet : lookup[id].threw
      info == [id \in Ids |-> IF id \in onNet THEN lookup[id].value
                              ELSE poll.info[id]]
      ctx == [nearby |-> poll.nearby, info |-> info,
              models |-> poll.closure.aircraftModels,
              previous |-> previousAircraftRef,
              permission |-> permission, throwAt |-> throwAt]
      st == ProcessPlanes(ctx, [alerted |-> alertedAircraftRef, current |-> {},
                                toasts |-> <<>>, os |-> <<>>,
                                threw |-> lookupThrew], 1)
  IN /\ poll.pc = "awaitHex"
     /\ \A id \in Ids : (id \in onNet) <=> (answers[id] # "none")
     \* Notification.permission is read inside the toast block only: for a
     \* poll that raises no toast one value stands for all of them.
     /\ st.toasts = <<>> => (permission = "default" /\ throwAt = 0)
     /\ aircraftCache' = [id \in Ids |-> IF id \in onNet /\ lookup[id].store
                                         THEN lookup[id].value
                                         ELSE aircraftCache[id]]
     /\ resolved' = [id \in Ids |-> IF id \in onNet /\ ~lookup[id].threw
                                       /\ resolved[id] = "unset"
                                    THEN lookup[id].value
                                    ELSE resolved[id]]
     /\ alertedAircraftRef' = AlertedAfter(st)
     /\ previousAircraftRef' = PreviousAfter(st)
     /\ error' = ErrorAfter(st, ThrownError)
     /\ IF st.threw
        THEN UNCHANGED <<aircraft, lastUpdate>>
        ELSE /\ aircraft' = poll.nearby
             /\ lastUpdate' = "set"
     /\ isLoading' = LoadingAfter(st)
     /\ LET Others(p) == ToldOf(p, Range(st.toasts))
        IN polls' = BagOfAll(Others, polls (-) SetToBag({poll}))
     /\ emitted' = [kind |-> IF st.threw THEN "threw" ELSE "done",
                    trigger |-> Null, toasts |-> st.toasts, os |-> st.os,
                    listed |-> Range(poll.nearby), current |-> st.current,
                    matching |-> {id \in Range(poll.nearby) :
                                    IsMatchingModel(info, id,
                                                    poll.closure.aircraftModels)},
                    feedFailed |-> poll.feedFailed,
                    responses |-> answers, lookupThrew |-> lookupThrew,
                    permission |-> IF st.toasts = <<>> THEN "unread"
                                   ELSE permission,
                    told |-> poll.told]
     /\ visit' = VisitAfter(st, poll.nearby)
     /\ contInArea' = contInArea \cup (Range(st.toasts) \cap inArea)
     /\ timers' = TimersAfter(st, timers)
     /\ fresh' = FALSE
     /\ seenInArea' = IF st.threw THEN seenInArea
                      ELSE seenInArea \cup (st.current \cap inArea)
     /\ UNCHANGED <<alert, showSetup, selectedModels, inArea, geoCall,
                    batchCall, pureCall, scenario>>

HexResponse ==
  \E poll \in InFlight : \E answers \in HexAnswers :
    \E permission \in Permissions :
      \E throwAt \in 0..Len(poll.nearby) :
        /\ (throwAt # 0 => permission = "granted")
        /\ Commit(poll, answers, permission, throwAt)

(***************************************************************************)
(* The specification.                                                      *)
(***************************************************************************)
\* The scopes explored: one aircraft, listed once, under overlapping polls;
\* and every aircraft, in lists with repetitions, under polls that run one
\* after another.
Scenarios == {[fleet |-> {"a1"}, maxInFlight |-> MaxPolls, maxFeed |-> 1],
              [fleet |-> Ids, maxInFlight |-> 1, maxFeed |-> MaxFeedLen]}

\* No call is being followed on its own.
NoCall == [pc |-> "none"]

\* Everything the engine holds; a call followed on its own leaves it alone.
engineState == <<alert, showSetup, selectedModels, timers, polls, inArea,
                 aircraftCache, previousAircraftRef, alertedAircraftRef,
                 aircraft, isLoading, error, lastUpdate, emitted, visit,
                 contInArea, resolved, fresh, seenInArea, scenario>>

\* The state after construction: the page, the hook and the resolver.
EngineInit ==
  /\ alert = NoAlert
  /\ showSetup = TRUE
  /\ selectedModels = {}
  /\ timers = {}
  /\ polls = EmptyBag
  /\ inArea = {}
  /\ aircraftCache = [id \in Ids |-> "unset"]
  /\ previousAircraftRef = {}
  /\ alertedAircraftRef = {}
  /\ aircraft = <<>>
  /\ isLoading = FALSE
  /\ error = Null
  /\ lastUpdate = Null
  /\ emitted = Quiet
  /\ visit = [id \in Ids |-> "none"]
  /\ contInArea = {}
  /\ resolved = [id \in Ids |-> "unset"]
  /\ fresh = FALSE
  /\ seenInArea = {}

Init ==
  /\ EngineInit
  /\ geoCall = NoCall
  /\ batchCall = NoCall
  /\ pureCall = NoCall
  /\ scenario \in Scenarios

Next ==
  \/ handleCoordinateSelect
  \/ toggleModel
  \/ selectAll
  \/ clearAll
  \/ toggleAlert
  \/ editSettings
  \/ TimerTick
  \/ Refresh
  \/ Enter
  \/ Leave
  \/ GeoResponse
  \/ GeoFailure
  \/ HexResponse

Spec == Init /\ [][Next]_vars

\* The same engine while the geo feed answers every request.
NextFeedUp ==
  \/ handleCoordinateSelect
  \/ toggleModel
  \/ selectAll
  \/ clearAll
  \/ toggleAlert
  \/ editSettings
  \/ TimerTick
  \/ Refresh
  \/ Enter
  \/ Leave
  \/ GeoResponse
  \/ HexResponse

SpecFeedUp == Init /\ [][NextFeedUp]_vars

\* The engine in a browser that keeps running, in the scope where polls
\* overlap and the settings are not opened again once monitoring has been
\* started (pausing and resuming stay possible): an interval that exists
\* fires again and again, and a request that is out ends, with an answer or
\* with a failure.
InitLive == Init /\ scenario.maxInFlight = MaxPolls

NextLive ==
  \/ handleCoordinateSelect
  \/ toggleModel
  \/ selectAll
  \/ clearAll
  \/ toggleAlert
  \/ TimerTick
  \/ Refresh
  \/ Enter
  \/ Leave
  \/ GeoResponse
  \/ GeoFailure
  \/ HexResponse

SpecLive ==
  /\ InitLive
  /\ [][NextLive]_vars
  /\ SF_vars(TimerTick)
  /\ WF_vars(GeoResponse \/ GeoFailure)
  /\ WF_vars(HexResponse)


(***************************************************************************)
(* The geo provider on its own: one call of getAircraftInRadius, from the  *)
(* answer of the feed to the list the poll receives.                       *)
(*                                                                         *)
(* Positions are points of a flat grid whose unit is one kilometre in both *)
(* directions; distances are compared by their squares.                    *)
(***************************************************************************)
\* Largest radius of a watch circle, in kilometres.
MaxRadius == 2
\* Longest states array of one answer of the feed.
MaxStates == 2

\* A JSON value of a state vector: a number or null; a parsed field: a
\* number or undefined.
Num(n) == [t |-> "num", n |-> n]

NullValue == [t |-> "null", n |-> 0]

Undefined == [t |-> "undefined", n |-> 0]

\* The numeric fields parseAircraft reads with "|| undefined".
NumericFields == {"longitude", "latitude", "baro_altitude", "velocity",
                  "true_track", "vertical_rate", "geo_altitude", "category"}

\* JavaScript truthiness of such a value: null, undefined and 0 are falsy.
Falsy(v) == v.t # "num" \/ v.n = 0

\* state[i] || undefined
OrUndefined(v) == IF Falsy(v) THEN Undefined ELSE v

parseAircraft(state) ==
  [icao24 |-> state.icao24,
   num    |-> [f \in NumericFields |-> OrUndefined(state.num[f])]]

\* Variant: the failure is thrown on to the caller.
getStatesInAreaRethrows(response) ==
  IF response.kind = "error" THEN [threw |-> TRUE, value |-> <<>>]
  ELSE IF response.kind = "noStates" THEN [threw |-> FALSE, value |-> <<>>]
  ELSE [threw |-> FALSE,
        value |-> [i \in DOMAIN response.states |->
                     parseAircraft(response.states[i])]]

\* getStatesInArea: "error" is a request axios rejects (transport failure,
\* timeout, status outside 2xx), "noStates" an answer whose body has no
\* states array.
getStatesInArea(response) ==
  IF response.kind = "error" THEN [threw |-> FALSE, value |-> <<>>]
  ELSE IF response.kind = "noStates" THEN [threw |-> FALSE, value |-> <<>>]
  ELSE [threw |-> FALSE,
        value |-> [i \in DOMAIN response.states |->
                     parseAircraft(response.states[i])]]

calculateBoundingBox(lat, lon, radiusKm) ==
  [latMin |-> lat - radiusKm, latMax |-> lat + radiusKm,
   lonMin |-> lon - radiusKm, lonMax |-> lon + radiusKm]

\* The square of calculateDistance on the grid.
DistanceSq(lat1, lon1, lat2, lon2) ==
  (lat2 - lat1) * (lat2 - lat1) + (lon2 - lon1) * (lon2 - lon1)

\* Variant: the filter trusts the bounding box and keeps every aircraft
\* that has a position.
KeptByFilterBoxOnly(plane, lat, lon, radiusKm) ==
  ~(Falsy(plane.num["latitude"]) \/ Falsy(plane.num["longitude"]))

\* The callback of aircraft.filter in getAircraftInRadius.
KeptByFilter(plane, lat, lon, radiusKm) ==
  IF Falsy(plane.num["latitude"]) \/ Falsy(plane.num["longitude"]) THEN FALSE
  ELSE DistanceSq(lat, lon, plane.num["latitude"].n, plane.num["longitude"].n)
         <= radiusKm * radiusKm

RECURSIVE FilterSeq(_, _, _, _)
FilterSeq(planes, lat, lon, radiusKm) ==
  IF planes = <<>> THEN <<>>
  ELSE LET rest == FilterSeq(Tail(planes), lat, lon, radiusKm)
       IN IF KeptByFilter(Head(planes), lat, lon, radiusKm)
          THEN <<Head(planes)>> \o rest ELSE rest

\* The presence set fetchAircraft builds from the list: the planes it does
\* not skip for a missing position.
PresenceSet(planes) ==
  {planes[i].icao24 : i \in {j \in DOMAIN planes :
     ~(Falsy(planes[j].num["latitude"]) \/ Falsy(planes[j].num["longitude"]))}}

\* The identifier of the i-th state vector of an answer.
Icao24s == <<"a1", "a2", "a3", "a4">>

\* The centers of the watch circles tried.
Centers == {[lat |-> 0, lon |-> 0], [lat |-> 1, lon |-> 1]}

\* The numeric fields of the state vectors the feed may report for the
\* bounding box: every position in the box (or none) with the other fields
\* known, and the aircraft at the center with the other fields null or 0.
StateVectors(box, lat, lon) ==
  LET Coords(min, max) == {Num(n) : n \in min..max} \cup {NullValue}
      Vector(la, lo, other) ==
        [f \in NumericFields |-> IF f = "latitude" THEN la
                                 ELSE IF f = "longitude" THEN lo ELSE other]
  IN {Vector(la, lo, Num(7)) : la \in Coords(box.latMin, box.latMax),
                               lo \in Coords(box.lonMin, box.lonMax)}
     \cup {Vector(Num(lat), Num(lon), other) : other \in {NullValue, Num(0)}}

\* An answer with a states array: the i-th state vector carries the i-th
\* identifier.
StatesResponse(nums) ==
  [kind |-> "states",
   states |-> [i \in DOMAIN nums |-> [icao24 |-> Icao24s[i], num |-> nums[i]]]]

FailedResponses ==
  {[kind |-> "error", states |-> <<>>], [kind |-> "noStates", states |-> <<>>]}

\* getAircraftInRadius is called and its request is out.
GeoCall(lat, lon, radiusKm, response) ==
  [pc |-> "request", lat |-> lat, lon |-> lon, radiusKm |-> radiusKm,
   response |-> response, fetched |-> <<>>, threw |-> FALSE, result |-> <<>>]

\* await this.getStatesInArea(boundingBox)
GeoCallFetch ==
  /\ geoCall.pc = "request"
  /\ LET r == getStatesInArea(geoCall.response)
     IN geoCall' = [geoCall EXCEPT !.pc = IF r.threw THEN "done" ELSE "fetched",
                                   !.fetched = r.value, !.threw = r.threw]
  /\ UNCHANGED <<engineState, batchCall, pureCall>>

\* return aircraft.filter(...)
GeoCallFilter ==
  /\ geoCall.pc = "fetched"
  /\ geoCall' = [geoCall EXCEPT !.pc = "done",
                                !.result = FilterSeq(geoCall.fetched, geoCall.lat,
                                                     geoCall.lon, geoCall.radiusKm)]
  /\ UNCHANGED <<engineState, batchCall, pureCall>>

\* The scope of a call followed on its own: no aircraft of the engine.
NoScenario == [fleet |-> {}, maxInFlight |-> 0, maxFeed |-> 0]

InitGeo ==
  /\ EngineInit
  /\ batchCall = NoCall
  /\ pureCall = NoCall
  /\ scenario = NoScenario
  /\ \E c \in Centers : \E r \in 1..MaxRadius :
       \/ \E response \in FailedResponses : geoCall = GeoCall(c.lat, c.lon, r, response)
       \/ \E k \in 0..MaxStates :
            \E nums \in [1..k -> StateVectors(calculateBoundingBox(c.lat, c.lon, r),
                                               c.lat, c.lon)] :
              geoCall = GeoCall(c.lat, c.lon, r, StatesResponse(nums))

NextGeo ==
  \/ GeoCallFetch
  \/ GeoCallFilter

SpecGeo == InitGeo /\ [][NextGeo]_vars

(***************************************************************************)
(* The type resolver on its own: one call of getMultipleAircraftInfo.  The *)
(* identifiers of its list are known by their positions 1..n.              *)
(***************************************************************************)
\* Longest list handed to getMultipleAircraftInfo.
MaxBatchLen == 21

\* const batchSize = 10
batchSize == 10

Min(a, b) == IF a < b THEN a ELSE b

\* icao24List.slice(i, i + batchSize), by positions (i counts from 0).
Slice(n, i) == (i + 1)..Min(i + batchSize, n)

\* Variant: the pause is taken after every chunk, the last one included.
PauseDueAlways(n, i) == TRUE

\* if (i + batchSize < icao24List.length)
PauseDue(n, i) == i + batchSize < n

\* The head of the for loop at index i: the loop ends, or every lookup of
\* the chunk is started (batch.map) and Promise.all is awaited.
LoopAt(call, i) ==
  IF i < call.n
  THEN [call EXCEPT !.pc = "lookups", !.i = i,
                    !.outstanding = Slice(call.n, i),
                    !.started = @ + Cardinality(Slice(call.n, i))]
  ELSE [call EXCEPT !.pc = "done", !.i = i]

\* The lists handed over repeat their identifiers with one of these periods:
\* within a chunk, from one chunk to the next, or not at all.
Periods == {3, batchSize, MaxBatchLen + 1}

\* The identifier at position k of the list.
IdAt(call, k) == ((k - 1) % call.period) + 1

\* results.set(icao24, info) on a Map: a new key, or a new value for a key.
MapSet(m, key, value) ==
  [x \in DOMAIN m \cup {key} |-> IF x = key THEN value ELSE m[x]]

\* batchResults.forEach(({ icao24, info }) => results.set(icao24, info)),
\* from position k to position last; the info of a lookup is known by the
\* position of that lookup.
RECURSIVE SetEach(_, _, _, _)
SetEach(results, call, k, last) ==
  IF k > last THEN results
  ELSE SetEach(MapSet(results, IdAt(call, k), k), call, k + 1, last)

\* Variant: the Map is created inside the loop, once per chunk.
StoreChunkFreshMap(call) ==
  SetEach(<<>>, call, call.i + 1, Min(call.i + batchSize, call.n))

\* The results of the chunk at index i go into the one Map of the call.
StoreChunk(call) ==
  SetEach(call.results, call, call.i + 1, Min(call.i + batchSize, call.n))

BatchCalled(n, period) ==
  [pc |-> "called", n |-> n, period |-> period, i |-> 0, outstanding |-> {},
   started |-> 0, completed |-> 0, pauses |-> 0, results |-> <<>>]

batchFrame == <<engineState, geoCall, pureCall>>

\* The call runs up to its first await.
BatchBegin ==
  /\ batchCall.pc = "called"
  /\ batchCall' = LoopAt(batchCall, 0)
  /\ UNCHANGED batchFrame

\* One lookup of the chunk settles; when it is the last one, Promise.all
\* resolves, the results are stored and the loop goes on to the pause or
\* to its next test.
LookupSettles ==
  /\ batchCall.pc = "lookups"
  /\ \E k \in batchCall.outstanding :
       LET left == [batchCall EXCEPT !.outstanding = @ \ {k},
                                     !.completed = @ + 1]
           stored == [left EXCEPT !.results = StoreChunk(left)]
       IN batchCall' =
            IF left.outstanding # {} THEN left
            ELSE IF PauseDue(left.n, left.i) THEN [stored EXCEPT !.pc = "pause"]
            ELSE LoopAt(stored, left.i + batchSize)
  /\ UNCHANGED batchFrame

\* The 100 ms timer of the pause fires.
PauseElapses ==
  /\ batchCall.pc = "pause"
  /\ batchCall' = LoopAt([batchCall EXCEPT !.pauses = @ + 1],
                         batchCall.i + batchSize)
  /\ UNCHANGED batchFrame

InitBatch ==
  /\ EngineInit
  /\ geoCall = NoCall
  /\ pureCall = NoCall
  /\ scenario = NoScenario
  /\ \E n \in 0..MaxBatchLen : \E period \in Periods :
       batchCall = BatchCalled(n, period)

NextBatch ==
  \/ BatchBegin
  \/ LookupSettles
  \/ PauseElapses

SpecBatch == InitBatch /\ [][NextBatch]_vars

\* Every lookup settles (its request has a 5 second timeout) and the timer
\* of the pause fires: a step of the call that can be taken is taken.
SpecBatchLive == SpecBatch /\ WF_vars(NextBatch)

(***************************************************************************)
(* calculateDistance on its own.  The points lie on a lattice of 60        *)
(* degrees, where every term of the haversine formula is a rational number *)
(* and is computed exactly: with a16 = 16 * a,                             *)
(*   4 * sin(x)^2 is 0, 1, 3, 4 for x = 0, 30, 60, 90 degrees,             *)
(*   2 * cos(x)   is 2, 1      for x = 0, 60 degrees.                      *)
(***************************************************************************)
\* Longitudes run from -60 * MaxLonSteps to 60 * MaxLonSteps degrees.
MaxLonSteps == 3

Latitudes == {-60, 0, 60}

Longitudes == {60 * k : k \in (0 - MaxLonSteps)..MaxLonSteps}

\* 4 * Math.sin(x) * Math.sin(x), x in degrees, a multiple of 30.
SinSq4(deg) ==
  LET r == deg % 180
  IN IF r = 0 THEN 0 ELSE IF r \in {30, 150} THEN 1
     ELSE IF r \in {60, 120} THEN 3 ELSE 4

\* 2 * Math.cos(x), x a latitude of the lattice.
Cos2(deg) == IF deg = 0 THEN 2 ELSE 1

\* R * 2 * Math.atan2(Math.sqrt(a), Math.sqrt(1 - a)) with R = 6371, in whole
\* kilometres, for a16 = 0, 1, ..., 16.
ArcKm == <<0, 3220, 4605, 5706, 6672, 7559, 8398, 9209, 10008, 10806, 11617,
           12457, 13343, 14309, 15411, 16795, 20015>>

\* Variant: the cosine of the first latitude is taken twice.
calculateDistanceOneCosine(lat1, lon1, lat2, lon2) ==
  LET dLat == lat2 - lat1
      dLon == lon2 - lon1
      a16 == 4 * SinSq4(dLat \div 2) + Cos2(lat1) * Cos2(lat1) * SinSq4(dLon \div 2)
  IN ArcKm[a16 + 1]

calculateDistance(lat1, lon1, lat2, lon2) ==
  LET dLat == lat2 - lat1
      dLon == lon2 - lon1
      a16 == 4 * SinSq4(dLat \div 2) + Cos2(lat1) * Cos2(lat2) * SinSq4(dLon \div 2)
  IN ArcKm[a16 + 1]

pureFrame == <<engineState, geoCall, batchCall>>

DistanceCalled(lat1, lon1, lat2, lon2) ==
  [pc |-> "called", lat1 |-> lat1, lon1 |-> lon1, lat2 |-> lat2, lon2 |-> lon2]

\* calculateDistance(a, b) returns; calculateDistance(b, a) is taken next to
\* it.
DistanceReturns ==
  /\ pureCall.pc = "called"
  /\ pureCall' =
       [pc |-> "done", lat1 |-> pureCall.lat1, lon1 |-> pureCall.lon1,
        lat2 |-> pureCall.lat2, lon2 |-> pureCall.lon2,
        there |-> calculateDistance(pureCall.lat1, pureCall.lon1,
                                    pureCall.lat2, pureCall.lon2),
        back  |-> calculateDistance(pureCall.lat2, pureCall.lon2,
                                    pureCall.lat1, pureCall.lon1)]
  /\ UNCHANGED pureFrame

InitDistance ==
  /\ EngineInit
  /\ geoCall = NoCall
  /\ batchCall = NoCall
  /\ scenario = NoScenario
  /\ \E lat1 \in Latitudes, lat2 \in Latitudes :
       \E lon1 \in Longitudes, lon2 \in Longitudes :
         pureCall = DistanceCalled(lat1, lon1, lat2, lon2)

NextDistance == DistanceReturns

SpecDistance == InitDistance /\ [][NextDistance]_vars

(***************************************************************************)
(* mapTypeToModel on its own.                                              *)
(***************************************************************************)
\* The type codes it is called with: every key of the table, no code, the
\* empty code, codes in no table, and names every JavaScript object knows.
TypeCodeInputs ==
  DOMAIN typeMap \cup {Null, "", "ZZZZ", "b738", "B73"} \cup ObjectPrototypeMembers

TypeLookupCalled(typeCode) == [pc |-> "called", typeCode |-> typeCode]

TypeLookupReturns ==
  /\ pureCall.pc = "called"
  /\ pureCall' = [pc |-> "done", typeCode |-> pureCall.typeCode,
                  result |-> mapTypeToModel(pureCall.typeCode)]
  /\ UNCHANGED pureFrame

InitTypeLookup ==
  /\ EngineInit
  /\ geoCall = NoCall
  /\ batchCall = NoCall
  /\ scenario = NoScenario
  /\ \E typeCode \in TypeCodeInputs : pureCall = TypeLookupCalled(typeCode)

NextTypeLookup == TypeLookupReturns

SpecTypeLookup == InitTypeLookup /\ [][NextTypeLookup]_vars

(***************************************************************************)
(* The match test on its own: the user watches one model of the selector,  *)
(* and every type code is put to the test of lines 69-73.                  *)
(***************************************************************************)
\* The type codes whose aircraft match a watchlist: matchedModel &&
\* alert.aircraftModels.includes(matchedModel).
MatchingTypeCodes(aircraftModels) ==
  {typeCode \in TypeCodeInputs :
     LET matchedModel == mapTypeToModel(typeCode)
     IN matchedModel # Null /\ matchedModel \in aircraftModels}

WatchCalled(modelKey) == [pc |-> "called", modelKey |-> modelKey]

WatchReturns ==
  /\ pureCall.pc = "called"
  /\ pureCall' = [pc |-> "done", modelKey |-> pureCall.modelKey,
                  typeCodes |-> MatchingTypeCodes({pureCall.modelKey})]
  /\ UNCHANGED pureFrame

\* The selector offers Object.keys(AIRCRAFT_MODELS).
InitWatch ==
  /\ EngineInit
  /\ geoCall = NoCall
  /\ batchCall = NoCall
  /\ scenario = NoScenario
  /\ \E modelKey \in DOMAIN AIRCRAFT_MODELS : pureCall = WatchCalled(modelKey)

NextWatch == WatchReturns

SpecWatch == InitWatch /\ [][NextWatch]_vars

(***************************************************************************)
(* The content of a notification on its own: one state vector of the feed  *)
(* is parsed, and the loop body of fetchAircraft notifies it.  Distances   *)
(* are in hundredths of a kilometre, altitudes in tenths of a metre.       *)
(***************************************************************************)
\* state[1]?.trim() || undefined
ParseCallsign(raw) ==
  LET trimmed == IF raw = "SAS123  " THEN "SAS123"
                 ELSE IF raw = "        " THEN "" ELSE raw
  IN IF raw = Null \/ trimmed = "" THEN Null ELSE trimmed

\* a || b on strings: undefined and the empty string are falsy.
OrElse(a, b) == IF a = Null \/ a = "" THEN b ELSE a

\* distance.toFixed(1): rounded to the nearest tenth (no input of the model
\* lies halfway between two tenths).
ToFixed1(hundredths) ==
  LET tenths == (hundredths + 5) \div 10
  IN [km |-> tenths \div 10, tenth |-> tenths % 10]

\* plane.baro_altitude ? `${Math.round(plane.baro_altitude)}m` : 'Unknown'
AltitudeText(baro_altitude) ==
  IF Falsy(baro_altitude) THEN [known |-> FALSE, metres |-> 0]
  ELSE [known |-> TRUE, metres |-> (baro_altitude.n + 5) \div 10]

\* toast.success(title, {description}): lines 80-88.
ToastFor(plane, hexDBInfo, matchedModel, distance) ==
  [name         |-> ModelName(matchedModel),
   flight       |-> OrElse(plane.callsign, "Unknown"),
   registration |-> OrElse(hexDBInfo.Registration, plane.icao24),
   type         |-> OrElse(hexDBInfo.Type, "Unknown"),
   distance     |-> ToFixed1(distance),
   altitude     |-> AltitudeText(plane.baro_altitude)]

\* new Notification(title, {body}): lines 92-95.
OsNotificationFor(plane, hexDBInfo, matchedModel, distance) ==
  [name     |-> ModelName(matchedModel),
   flight   |-> OrElse(plane.callsign, plane.icao24),
   distance |-> ToFixed1(distance)]

\* What hexdb.io may hold for an aircraft of a watched model.
HexDBRecords ==
  [ICAOTypeCode : {"B738", "A20N"},
   Registration : {Null, "", "SE-RPA"},
   Type         : {Null, "", "Boeing 737-8JP"}]

\* What the feed may report: state[1], state[7].
ReportedCallsigns == {Null, "        ", "SAS123  "}

ReportedAltitudes == {NullValue, Num(0), Num(4), Num(106684)}

\* 0.04, 0.06, 9.96, 10, 10.04, 10.06 and 49.99 km.
ReportedDistances == {4, 6, 996, 1000, 1004, 1006, 4999}

NotifyCalled(callsign, altitude, info, distance) ==
  [pc |-> "called", icao24 |-> "a1", callsign |-> callsign,
   altitude |-> altitude, info |-> info, distance |-> distance]

\* The state vector is parsed and the aircraft, matching and new, is
\* notified.
NotifyReturns ==
  /\ pureCall.pc = "called"
  /\ LET plane == [icao24 |-> pureCall.icao24,
                   callsign |-> ParseCallsign(pureCall.callsign),
                   baro_altitude |-> OrUndefined(pureCall.altitude)]
         matchedModel == mapTypeToModel(pureCall.info.ICAOTypeCode)
     IN pureCall' =
          [pc |-> "done", icao24 |-> pureCall.icao24,
           callsign |-> pureCall.callsign, altitude |-> pureCall.altitude,
           info |-> pureCall.info, distance |-> pureCall.distance,
           toast |-> ToastFor(plane, pureCall.info, matchedModel,
                              pureCall.distance),
           os |-> OsNotificationFor(plane, pureCall.info, matchedModel,
                                    pureCall.distance)]
  /\ UNCHANGED pureFrame

InitNotify ==
  /\ EngineInit
  /\ geoCall = NoCall
  /\ batchCall = NoCall
  /\ scenario = NoScenario
  /\ \E callsign \in ReportedCallsigns, altitude \in ReportedAltitudes :
       \E info \in HexDBRecords, distance \in ReportedDistances :
         pureCall = NotifyCalled(callsign, altitude, info, distance)

NextNotify == NotifyReturns

SpecNotify == InitNotify /\ [][NextNotify]_vars

(***************************************************************************)
(* Properties.  A step of a poll is recognised by what it emitted:         *)
(* "start" (the geo request went out), "done" (the poll ran to its end),   *)
(* "threw" (the poll ended in its catch block).                            *)
(***************************************************************************)
PollEnded == emitted.kind \in {"done", "threw"}

\* C1: once an identifier has been notified, no later poll notifies it
\* again as long as it is in the result of every poll completed since.
C1_AtMostOncePerPresence ==
  [][\A id \in Ids :
       visit[id] = "notified" => Count(emitted'.toasts, id) = 0]_vars

\* A completed poll listed a notified, still matching aircraft and stayed
\* silent.
C1_Witness ==
  /\ emitted.kind = "done"
  /\ visit["a1"] = "notified"
  /\ "a1" \in emitted.matching
  /\ emitted.toasts = <<>>

\* C2: an alerted identifier that was absent from a completed poll gets
\* exactly one notification in the next poll whose result lists it, if it
\* still matches the watchlist of that poll.
C2_ReentryNotifiedOnce ==
  [][\A id \in Ids :
       (visit[id] = "absent" /\ id \in emitted'.listed /\ id \in emitted'.matching)
         => Count(emitted'.toasts, id) = 1]_vars

\* C3: in a poll that completes, an identifier gets one notification if it
\* matches, was not in the previous presence set and was not alerted, and
\* none otherwise; a notified identifier is in the alerted set afterwards.
C3_NotifiedIffMatchingNewUnalerted ==
  [][emitted'.kind = "done" =>
       /\ \A id \in Ids :
            Count(emitted'.toasts, id) =
              IF /\ id \in emitted'.listed
                 /\ id \in emitted'.matching
                 /\ id \notin previousAircraftRef
                 /\ id \notin alertedAircraftRef
              THEN 1 ELSE 0
       /\ Range(emitted'.toasts) \subseteq alertedAircraftRef']_vars

\* The feed listed the aircraft twice and the poll notified it once.
C3_Witness ==
  /\ emitted.kind = "done"
  /\ aircraft = <<"a1", "a1">>
  /\ emitted.toasts = <<"a1">>
  /\ "a1" \in alertedAircraftRef

\* C4: a poll whose geo request failed leaves the previous-presence set and
\* the alerted set as they were.
C4_FailedFeedKeepsTracking ==
  [][(PollEnded' /\ emitted'.feedFailed) =>
       /\ previousAircraftRef' = previousAircraftRef
       /\ alertedAircraftRef' = alertedAircraftRef]_vars

\* C5: a poll that throws leaves the previous-presence set alone, and the
\* set changes only at the end of a poll that completed, to the presence
\* set of that poll.
C5_PreviousReplacedOnlyOnCompletion ==
  [][/\ emitted'.kind = "threw" => previousAircraftRef' = previousAircraftRef
     /\ previousAircraftRef' # previousAircraftRef =>
          (emitted'.kind = "done" /\ previousAircraftRef' = emitted'.listed)]_vars

\* A poll threw after it had put an aircraft in its own presence set, and
\* the previous-presence set still holds the other aircraft only.
C5_Witness ==
  /\ emitted.kind = "threw"
  /\ previousAircraftRef # {}
  /\ emitted.current \ previousAircraftRef # {}

\* C6: a poll that throws leaves the alerted set as it was.
C6_ThrowKeepsAlerted ==
  [][emitted'.kind = "threw" => alertedAircraftRef' = alertedAircraftRef]_vars

\* C7: an aircraft that has stayed in the area since it was notified is not
\* notified again, however polls overlap.
C7_AtMostOncePerVisitUnderOverlap ==
  [][\A id \in contInArea : Count(emitted'.toasts, id) = 0]_vars

\* C8: a poll started by the timer never starts while a poll is in flight.
C8_TimerPollsSerialized ==
  [][(emitted'.kind = "start" /\ emitted'.trigger = "timer")
       => NumInFlight = 0]_vars

\* C9: a poll that ends while the watch area is inactive notifies nothing
\* and changes neither set.
C9_CommitGuardedOnActive ==
  [][(PollEnded' /\ ~CanPoll(alert')) =>
       /\ emitted'.toasts = <<>>
       /\ previousAircraftRef' = previousAircraftRef
       /\ alertedAircraftRef' = alertedAircraftRef]_vars

\* C10: while the watch area is null or inactive no interval timer exists,
\* and no step that leaves it so sends a geo request.
C10_StoppedMeansNoTimerNoRequest ==
  /\ ~CanPoll(alert) => timers = {}
  /\ emitted.kind = "start" => CanPoll(alert)

\* Monitoring was stopped while a poll was in flight, after an earlier poll
\* had completed.
C10_Witness ==
  /\ alert.set
  /\ ~alert.active
  /\ lastUpdate = "set"
  /\ NumInFlight > 0
  /\ timers = {}

LookedUpNow(p) ==
  /\ p.pc = "awaitHex"
  /\ CopiesIn(p, polls') > CopiesIn(p, polls)

\* C15: once a lookup of an identifier has completed, every lookup of it
\* that starts later returns what that lookup returned, without a request.
C15_LaterLookupsRepeatFirstOutcome ==
  [][\A id \in Ids : \A p \in BagToSet(polls') :
       (resolved[id] # "unset" /\ LookedUpNow(p) /\ id \in Range(p.nearby))
         => p.info[id] = resolved[id]]_vars

\* C16: no two requests for the same identifier are in flight at once.
C16_OneFetchPerIdentifier ==
  \A id \in Ids : \A p, q \in InFlight :
    (p.info[id] = "net" /\ q.info[id] = "net")
      => (p = q /\ CopiesIn(p, polls) = 1)

\* C17: an entry of the cache is never removed and never given another
\* value.
C17_CacheOnlyGrows ==
  [][\A id \in Ids :
       aircraftCache[id] # "unset" => aircraftCache'[id] = aircraftCache[id]]_vars

\* C18: a lookup that ends with 404, a timeout, a transport error or an
\* empty body does not throw, gives not-found (the aircraft matches nothing
\* and is not notified) and leaves a not-found entry in the cache.
C18_FailedLookupIsCachedNotFound ==
  [][\A id \in Ids :
       emitted'.responses[id] \in {"empty", "notFound404", "timeout", "transport"}
         => /\ ~emitted'.lookupThrew
            /\ id \notin emitted'.matching
            /\ Count(emitted'.toasts, id) = 0
            /\ aircraftCache'[id] = "null"]_vars

\* A poll completed although the lookup of its aircraft timed out, and the
\* cache holds the not-found entry.
C18_Witness ==
  /\ emitted.kind = "done"
  /\ emitted.listed = {"a1"}
  /\ emitted.responses["a1"] = "timeout"
  /\ aircraftCache["a1"] = "null"

\* The state vectors the feed reported to the call followed on its own.
Reported == Range(geoCall.response.states)

\* The feed reported a position for the state vector.
PositionReported(state) ==
  state.num["latitude"].t = "num" /\ state.num["longitude"].t = "num"

\* The reported position lies within the radius of the call.
ReportedInCircle(state) ==
  /\ PositionReported(state)
  /\ DistanceSq(geoCall.lat, geoCall.lon,
                state.num["latitude"].n, state.num["longitude"].n)
       <= geoCall.radiusKm * geoCall.radiusKm

\* The reported position is a corner of the bounding box of the call.
ReportedOnCorner(state) ==
  /\ PositionReported(state)
  /\ state.num["latitude"].n \in {geoCall.lat - geoCall.radiusKm,
                                   geoCall.lat + geoCall.radiusKm}
  /\ state.num["longitude"].n \in {geoCall.lon - geoCall.radiusKm,
                                    geoCall.lon + geoCall.radiusKm}

ReturnedIds == {geoCall.result[i].icao24 : i \in DOMAIN geoCall.result}

\* C12: every aircraft getAircraftInRadius returns was reported with a
\* position, carries that position, and lies within the radius; an aircraft
\* reported on a corner of the bounding box is not returned.
C12_NoFalsePositives ==
  geoCall.pc = "done" =>
    /\ \A i \in DOMAIN geoCall.result :
         \E state \in Reported :
           /\ state.icao24 = geoCall.result[i].icao24
           /\ ReportedInCircle(state)
           /\ geoCall.result[i].num["latitude"] = state.num["latitude"]
           /\ geoCall.result[i].num["longitude"] = state.num["longitude"]
    /\ \A state \in Reported :
         ReportedOnCorner(state) => state.icao24 \notin ReturnedIds

\* Of two reported aircraft the call returned the one inside the circle and
\* dropped the one on the corner of the box.
C12_Witness ==
  /\ geoCall.pc = "done"
  /\ Len(geoCall.result) = 1
  /\ \E state \in Reported : ReportedOnCorner(state)

\* C13: getAircraftInRadius returns exactly the reported aircraft that have
\* a position within the radius, and these form the presence set.
C13_ExactlyTheAircraftInCircle ==
  geoCall.pc = "done" =>
    /\ ReturnedIds = {state.icao24 : state \in {st \in Reported : ReportedInCircle(st)}}
    /\ PresenceSet(geoCall.result) = ReturnedIds

\* C14: parsing turns null into unknown and keeps every reported number,
\* 0 included.
C14_ParseKeepsNumbers ==
  (geoCall.pc \in {"fetched", "done"} /\ geoCall.response.kind = "states") =>
    \A i \in DOMAIN geoCall.fetched : \A f \in NumericFields :
      geoCall.fetched[i].num[f] =
        IF geoCall.response.states[i].num[f].t = "null" THEN Undefined
        ELSE geoCall.response.states[i].num[f]

\* C19: at most 10 lookups of a batch call are in flight; the lookups of a
\* chunk are the next 10 positions (or what is left) and start only when
\* every earlier lookup has settled and, after the first chunk, the pause has
\* elapsed; a finished call has looked up every position and paused once
\* between two chunks, never after the last.
C19_ChunksOfTenWithPauses ==
  [][/\ Cardinality(batchCall'.outstanding) <= batchSize
     /\ batchCall'.started > batchCall.started =>
          /\ batchCall.outstanding = {}
          /\ batchCall.completed = batchCall.started
          /\ batchCall.started > 0 => batchCall.pc = "pause"
          /\ batchCall'.outstanding =
               (batchCall.started + 1)..Min(batchCall.started + batchSize, batchCall.n)
     /\ batchCall'.pc = "done" =>
          /\ batchCall'.started = batchCall.n
          /\ batchCall'.completed = batchCall.n
          /\ batchCall'.pauses = IF batchCall.n = 0 THEN 0
                                 ELSE (batchCall.n - 1) \div batchSize]_vars

\* A call with three chunks finished after two pauses.
C19_Witness ==
  /\ batchCall.pc = "done"
  /\ batchCall.n > 2 * batchSize
  /\ batchCall.pauses = 2

\* C20: a failed request and an answer without a states array give the
\* empty list without throwing, exactly what an answer with an empty states
\* array gives.
C20_FailedFeedIsEmptyList ==
  (geoCall.pc \in {"fetched", "done"} /\ geoCall.response.kind \in {"error", "noStates"}) =>
    /\ ~geoCall.threw
    /\ geoCall.fetched = <<>>
    /\ [threw |-> geoCall.threw, value |-> geoCall.fetched]
         = getStatesInArea(StatesResponse(<<>>))

\* The request failed and the call returned the empty list.
C20_Witness ==
  /\ geoCall.pc = "done"
  /\ geoCall.response.kind = "error"
  /\ ~geoCall.threw
  /\ geoCall.result = <<>>

\* C21: the first poll that completes after monitoring was started notifies
\* every matching aircraft it lists, whatever was seen before the start.
C21_RestartNotifiesPresentAircraft ==
  [][(fresh /\ emitted'.kind = "done") =>
       \A id \in emitted'.listed \cap emitted'.matching :
         Count(emitted'.toasts, id) >= 1]_vars

\* C22: an OS notification is created only with the permission granted and
\* only for an aircraft that gets a toast in the same step; without the
\* permission an aircraft that is due a notification still gets its toast and
\* still enters the alerted set.
C22_OsNotificationNeedsPermissionAndToast ==
  [][emitted'.kind \in {"done", "threw"} =>
       /\ \A id \in Ids : Count(emitted'.os, id) <= Count(emitted'.toasts, id)
       /\ emitted'.os # <<>> => emitted'.permission = "granted"
       /\ emitted'.permission \in {"denied", "default"} => emitted'.kind = "done"
       /\ emitted'.kind = "done" =>
            \A id \in emitted'.listed \cap emitted'.matching :
              (id \notin previousAircraftRef /\ id \notin alertedAircraftRef) =>
                /\ Count(emitted'.toasts, id) >= 1
                /\ id \in alertedAircraftRef']_vars

C22_Witness ==
  /\ emitted.kind = "done"
  /\ emitted.permission = "denied"
  /\ emitted.toasts = <<"a1">>
  /\ emitted.os = <<>>
  /\ "a1" \in alertedAircraftRef

\* C25: right after a poll that completes, every alerted identifier is in
\* the previous-presence set: the alerted set is what it was plus the
\* identifiers notified by this poll, less everything outside the presence
\* set of this poll, and nothing outside that set was added.
C25_AlertedWithinPresenceAfterPoll ==
  [][emitted'.kind = "done" =>
       /\ previousAircraftRef' = emitted'.current
       /\ alertedAircraftRef' \subseteq previousAircraftRef'
       /\ alertedAircraftRef' =
            (alertedAircraftRef \cup Range(emitted'.toasts)) \cap emitted'.current
       /\ Range(emitted'.toasts) \subseteq emitted'.current]_vars

C25_Witness ==
  /\ emitted.kind = "done"
  /\ visit["a1"] = "absent"
  /\ emitted.toasts = <<"a2">>
  /\ emitted.current = {"a2"}
  /\ alertedAircraftRef = {"a2"}
  /\ previousAircraftRef = {"a2"}

\* C27: a poll that throws ends there: the error string is set, isLoading
\* is false, the displayed list, lastUpdate and the timers are what they
\* were, and the call is no longer in flight; the step that starts a poll
\* clears the error string.
C27_ThrowIsCaughtAndReported ==
  [][/\ emitted'.kind = "threw" =>
          /\ error' # Null
          /\ ~isLoading'
          /\ aircraft' = aircraft
          /\ lastUpdate' = lastUpdate
          /\ timers' = timers
          /\ BagCardinality(polls') = BagCardinality(polls) - 1
     /\ emitted'.kind = "start" => error' = Null]_vars

C27_Witness ==
  /\ emitted.kind = "threw"
  /\ error = "TypeError"
  /\ ~isLoading
  /\ aircraft = <<"a1">>
  /\ lastUpdate = "set"
  /\ timers # {}

\* C30: a poll notifies an identifier only when the previous-presence set
\* does not hold it, and never while the aircraft has been in the area ever
\* since a completed poll listed it.
C30_NotifiedOnlyWhenAbsentBefore ==
  [][\A id \in Ids :
       Count(emitted'.toasts, id) > 0 =>
         /\ id \notin previousAircraftRef
         /\ id \notin seenInArea]_vars

\* C26: the synchronous part of a poll runs in one step, and two polls that
\* were in flight together never both notify the same identifier.
C26_OverlappingPollsNotifyOnce ==
  [][emitted'.kind \in {"done", "threw"} =>
       Range(emitted'.toasts) \cap emitted'.told = {}]_vars

\* C28: when getMultipleAircraftInfo returns, its map has one entry for
\* each distinct identifier of the list and no other key, each entry is the
\* outcome of a lookup of that identifier, and every call returns.
C28_OneEntryPerDistinctIdentifier ==
  /\ [](batchCall.pc = "done" =>
         /\ DOMAIN batchCall.results =
              {IdAt(batchCall, k) : k \in 1..batchCall.n}
         /\ \A id \in DOMAIN batchCall.results :
              /\ batchCall.results[id] \in 1..batchCall.n
              /\ IdAt(batchCall, batchCall.results[id]) = id)
  /\ <>(batchCall.pc = "done")

\* A list of three chunks that names three identifiers over and over.
C28_Witness ==
  /\ batchCall.pc = "done"
  /\ batchCall.n > 2 * batchSize
  /\ batchCall.period = 3
  /\ DOMAIN batchCall.results = 1..3

\* C24: calculateDistance gives the same distance in both directions, and
\* the distance from a point to itself is 0.
C24_DistanceSymmetricAndZeroOnSelf ==
  pureCall.pc = "done" =>
    /\ pureCall.there = pureCall.back
    /\ (pureCall.lat1 = pureCall.lat2 /\ pureCall.lon1 = pureCall.lon2) =>
         pureCall.there = 0

\* Two points on different latitudes and different longitudes, measured both
\* ways.
C24_Witness ==
  /\ pureCall.pc = "done"
  /\ pureCall.lat1 = 0
  /\ pureCall.lat2 = 60
  /\ pureCall.lon1 # pureCall.lon2
  /\ pureCall.there > 0

\* C23: mapTypeToModel returns the model key of every type code of the
\* table and no-match for every other input.
C23_TypeLookupIsTheTable ==
  pureCall.pc = "done" =>
    pureCall.result = IF pureCall.typeCode \in DOMAIN typeMap
                      THEN typeMap[pureCall.typeCode]
                      ELSE Null

\* C29: a notification names the model of the aircraft, its distance with
\* one decimal, its callsign or Unknown, its registration or else its
\* identifier, its type name or Unknown, and the altitude the feed reported
\* or, when it reported none, Unknown.
C29_NotificationDescribesAircraft ==
  pureCall.pc = "done" =>
    /\ pureCall.toast.name =
         (IF pureCall.info.ICAOTypeCode = "B738" THEN "Boeing 737"
          ELSE "Airbus A320")
    /\ pureCall.toast.distance.km * 100 + pureCall.toast.distance.tenth * 10
         \in (pureCall.distance - 5)..(pureCall.distance + 5)
    /\ pureCall.toast.flight =
         (IF pureCall.callsign = "SAS123  " THEN "SAS123" ELSE "Unknown")
    /\ pureCall.toast.registration =
         (IF pureCall.info.Registration = "SE-RPA" THEN "SE-RPA"
          ELSE pureCall.icao24)
    /\ pureCall.toast.type =
         (IF pureCall.info.Type = "Boeing 737-8JP" THEN "Boeing 737-8JP"
          ELSE "Unknown")
    /\ pureCall.toast.altitude.known = (pureCall.altitude.t = "num")
    /\ pureCall.toast.altitude.known =>
         pureCall.toast.altitude.metres * 10
           \in (pureCall.altitude.n - 5)..(pureCall.altitude.n + 5)

\* C31: a poll notifies an identifier only when its lookup gave a record of
\* a watched type, and an identifier whose first completed lookup gave
\* not-found is notified by no later poll.
C31_FailedFirstLookupSilencesIdentifier ==
  [][\A id \in Ids :
       Count(emitted'.toasts, id) > 0 =>
         /\ id \in emitted'.matching
         /\ resolved[id] # "null"]_vars

\* C32: a timer tick or a refresh while there is no alert, or the alert is
\* inactive, returns at the guard: no request goes out, nothing is notified,
\* and isLoading, error, lastUpdate, the list, the previous-presence set and
\* the alerted set are what they were.
C32_RequestWhileInactiveIsNoOp ==
  [][/\ (~CanPoll(alert) /\ emitted'.trigger \in {"timer", "refresh"}) =>
          emitted'.kind = "ignored"
     /\ emitted'.kind = "ignored" =>
          /\ emitted'.toasts = <<>>
          /\ emitted'.os = <<>>
          /\ UNCHANGED <<polls, isLoading, error, lastUpdate, aircraft,
                         previousAircraftRef, alertedAircraftRef>>]_vars

\* A refresh was asked for after monitoring had been stopped, with a call
\* of the stopped session still in flight.
C32_Witness ==
  /\ emitted.kind = "ignored"
  /\ emitted.trigger = "refresh"
  /\ alert.set /\ ~alert.active
  /\ NumInFlight > 0
  /\ isLoading

\* C33: isLoading is true exactly while at least one poll is in flight.
C33_LoadingIffPollInFlight ==
  isLoading <=> NumInFlight > 0

\* C34: while there is no alert or the alert is inactive, the aircraft list
\* of the hook is empty.
C34_InactiveMeansEmptyList ==
  ~CanPoll(alert) => aircraft = <<>>

\* C35: there is never more than one interval timer; there is one exactly
\* when an alert exists and is active, and it calls the fetchAircraft of the
\* current alert; a step that creates a timer starts exactly one poll, the
\* immediate one of the effect, and no other step starts a poll for the
\* effect.
C35_OneTimerExactlyWhileActive ==
  /\ [](/\ Cardinality(timers) <= 1
        /\ timers = IF CanPoll(alert) THEN {alert} ELSE {})
  /\ [][/\ (timers' # {} /\ timers' # timers) =>
               /\ emitted'.kind = "start"
               /\ emitted'.trigger = "effect"
               /\ BagCardinality(polls') = BagCardinality(polls) + 1
        /\ emitted'.trigger = "effect" =>
               /\ emitted'.kind = "start"
               /\ timers' = {alert'}
               /\ BagCardinality(polls') = BagCardinality(polls) + 1]_vars

\* The selection was changed while monitoring was on and a poll in flight:
\* the timer was created again and a second poll started.
C35_Witness ==
  /\ showSetup
  /\ CanPoll(alert)
  /\ timers = {alert}
  /\ emitted.kind = "start"
  /\ emitted.trigger = "effect"
  /\ NumInFlight = 2

\* C36: once an alert area is set, the watchlist of the alert is the set of
\* models the selector shows as selected.
C36_WatchlistIsTheSelection ==
  (alert.set /\ showSetup) => alert.aircraftModels = selectedModels

\* C37: whatever mapTypeToModel returns other than no-match is a key of
\* AIRCRAFT_MODELS, so its display name can be looked up.
C37_ReturnedKeyHasDisplayName ==
  (pureCall.pc = "done" /\ pureCall.result # Null) =>
    /\ pureCall.result \in DOMAIN AIRCRAFT_MODELS
    /\ ModelName(pureCall.result) # Null

\* C38: for every model the selector offers there is a type code whose
\* aircraft match a watchlist holding that model.
C38_EverySelectableModelCanMatch ==
  pureCall.pc = "done" => pureCall.typeCodes # {}

==========================================================================
